---- MODULE Spec2Model ----
(***************************************************************************)
(* MovieMeter: the movie service (listing, top-rated aggregation, CRUD)    *)
(* over the movies and ratings collections.                                *)
(*                                                                         *)
(* Text is modelled as a sequence of one-character strings, so that trim,  *)
(* parseInt, regular-expression search and string ordering are computed.   *)
(* An average rating is kept exact as the pair (ratingSum, voteCount); the *)
(* rounded output value is an integer number of 10^-RoundPlaces units      *)
(* (4667 stands for 4.667).                                                *)
(***************************************************************************)
EXTENDS Integers, Sequences, FiniteSets, TLC

(***************************************************************************)
(* Bounds of the model                                                     *)
(***************************************************************************)
MaxMovies == 2

\* How many times getTopRatedMovies is invoked (the initial load and the
\* change events).
MaxCalls == 2

MovieIds == 1..MaxMovies

(***************************************************************************)
(* JavaScript values and text                                              *)
(***************************************************************************)
\* undefined and null are one-element sequences that no text equals (every
\* element of a text is a single character).
Undefined == <<"undefined">>
Null == <<"null">>

\* A number or NaN (the result of parseInt).
NaN == [isNaN |-> TRUE, n |-> 0]
Num(k) == [isNaN |-> FALSE, n |-> k]

UpperCase == <<"A", "B", "C", "D", "E", "F", "G", "H", "I", "J", "K", "L", "M",
               "N", "O", "P", "Q", "R", "S", "T", "U", "V", "W", "X", "Y", "Z">>
LowerCase == <<"a", "b", "c", "d", "e", "f", "g", "h", "i", "j", "k", "l", "m",
               "n", "o", "p", "q", "r", "s", "t", "u", "v", "w", "x", "y", "z">>
DigitChars == <<"0", "1", "2", "3", "4", "5", "6", "7", "8", "9">>

IndexIn(c, table) == CHOOSE i \in 1..Len(table) : table[i] = c
IsIn(c, table) == \E i \in 1..Len(table) : table[i] = c

\* Code unit of a character (the characters of the model are ASCII).
Code(c) ==
  IF IsIn(c, UpperCase) THEN 64 + IndexIn(c, UpperCase)
  ELSE IF IsIn(c, LowerCase) THEN 96 + IndexIn(c, LowerCase)
  ELSE IF IsIn(c, DigitChars) THEN 47 + IndexIn(c, DigitChars)
  ELSE IF c = " " THEN 32
  ELSE IF c = "(" THEN 40
  ELSE IF c = "-" THEN 45
  ELSE 46

\* Case folding of the regular expression flag 'i'.
Fold(c) == IF IsIn(c, UpperCase) THEN LowerCase[IndexIn(c, UpperCase)] ELSE c

IsSpace(c) == c = " "

RECURSIVE TrimStart(_)
TrimStart(s) == IF s # <<>> /\ IsSpace(Head(s)) THEN TrimStart(Tail(s)) ELSE s

RECURSIVE TrimEnd(_)
TrimEnd(s) ==
  IF s # <<>> /\ IsSpace(s[Len(s)]) THEN TrimEnd(SubSeq(s, 1, Len(s) - 1)) ELSE s

\* String.prototype.trim
Trim(s) == TrimEnd(TrimStart(s))

RECURSIVE DigitPrefixLen(_)
DigitPrefixLen(s) ==
  IF s # <<>> /\ IsIn(Head(s), DigitChars) THEN 1 + DigitPrefixLen(Tail(s)) ELSE 0

RECURSIVE DigitsValue(_)
DigitsValue(s) ==
  IF s = <<>> THEN 0
  ELSE 10 * DigitsValue(SubSeq(s, 1, Len(s) - 1)) + (IndexIn(s[Len(s)], DigitChars) - 1)

\* parseInt(s, 10): leading white space, an optional sign, then the longest
\* run of decimal digits; NaN when there is no digit.
ParseInt(s) ==
  LET t == TrimStart(s)
      signed == t # <<>> /\ Head(t) \in {"-", "+"}
      negative == t # <<>> /\ Head(t) = "-"
      u == IF signed THEN Tail(t) ELSE t
      n == DigitPrefixLen(u)
  IN IF n = 0 THEN NaN
     ELSE IF negative THEN Num(0 - DigitsValue(SubSeq(u, 1, n)))
     ELSE Num(DigitsValue(SubSeq(u, 1, n)))

\* a ?? b
Coalesce(a, b) == IF a = Undefined \/ a = Null THEN b ELSE a

\* a non-empty string is truthy
Truthy(s) == s # Undefined /\ s # Null /\ s # <<>>

\* a || b for a number or NaN a: NaN and 0 are falsy
OrElse(a, b) == IF a.isNaN \/ a.n = 0 THEN b ELSE a.n

Min(a, b) == IF a < b THEN a ELSE b
Max(a, b) == IF a > b THEN a ELSE b

\* String comparison of the sort stage: code unit by code unit, a proper
\* prefix first.
RECURSIVE StrLess(_, _)
StrLess(a, b) ==
  IF b = <<>> THEN FALSE
  ELSE IF a = <<>> THEN TRUE
  ELSE IF Code(Head(a)) # Code(Head(b)) THEN Code(Head(a)) < Code(Head(b))
  ELSE StrLess(Tail(a), Tail(b))

(***************************************************************************)
(* Regular expressions. The patterns of the model are made of literal      *)
(* characters, the wildcard "." and the group opener "(": a pattern with   *)
(* an unclosed "(" does not compile (SyntaxError).                         *)
(***************************************************************************)
RegexCompiles(p) == \A i \in 1..Len(p) : p[i] # "("

AtomMatches(pc, c) == pc = "." \/ Fold(pc) = Fold(c)

\* RegExp(p, 'i') finds a match somewhere in s.
RegexTest(p, s) ==
  \E off \in 0..(Len(s) - Len(p)) :
    \A j \in 1..Len(p) : AtomMatches(p[j], s[off + j])

(***************************************************************************)
(* The documents of the model                                              *)
(***************************************************************************)
Alpha == <<"A", "l", "p", "h", "a">>
Beta == <<"B", "e", "t", "a">>
alpha == <<"a", "l", "p", "h", "a">>
SciFiAction == <<"S", "c", "i", "-", "F", "i", " ", "A", "c", "t", "i", "o", "n">>
Drama == <<"D", "r", "a", "m", "a">>

\* The movie documents that exist or are sent as a request body.
MovieDocs ==
  { [title |-> Alpha, genre |-> SciFiAction, release_year |-> 1999],
    [title |-> Beta, genre |-> Drama, release_year |-> 2000],
    [title |-> alpha, genre |-> SciFiAction, release_year |-> 2000] }

\* The rating scores (the observed domain is 0..5).
Scores == {0, 1, 2, 3, 4, 5}

\* The ratings of one movie: how many rating documents carry each score.
Votes(n3, n4, n5) ==
  [s \in Scores |-> IF s = 3 THEN n3 ELSE IF s = 4 THEN n4 ELSE IF s = 5 THEN n5 ELSE 0]

NoVotes == Votes(0, 0, 0)

\* 5,4,5 (mean 4.667); a single 5; 44 fours and a five (mean 4.02222...);
\* 45 fours and a five (mean 4.02173...): the last two differ only beyond
\* the third decimal.
RatingSets ==
  { NoVotes, Votes(0, 1, 2), Votes(0, 0, 1), Votes(0, 44, 1), Votes(0, 45, 1) }

(***************************************************************************)
(* State                                                                   *)
(***************************************************************************)
VARIABLES
  movies,     \* the movies collection: _id -> document, for the ids that exist
  ratings,    \* the ratings collection: movie reference -> score -> number of
              \* rating documents with that reference and score
  usedIds,    \* the ids ever given to a movie (an ObjectId is not given twice)
  response,   \* what the service call of the request being answered returned
              \* (NoResponse between requests)
  previous,   \* the response answered last (NoResponse at the start and after
              \* a change of the data)
  deployed,   \* which version of each file of the repository runs, and where:
              \* server, router, env (NODE_ENV), client, canvas (the page has
              \* the canvas #myChart)
  request,    \* the HTTP request the router is handling (NoRequest if none)
  err,        \* the error handed to the error handler (NoError before)
  served,     \* the HTTP response written last (NoServed before the first)
  genreFilter,        \* the select #genreFilter of the page: value, disabled
  calls,              \* the invocations of getTopRatedMovies, in order of start
  currentChart,       \* the client's currentChart: a chart id, 0 for null
  charts,             \* the Chart instances created and not destroyed
  currentController   \* the client's currentController: the call whose
                      \* AbortController it is, 0 for undefined

serviceVars == <<movies, ratings, usedIds, response>>
httpVars == <<deployed, request, err, served>>
clientVars == <<genreFilter, calls, currentChart, charts, currentController>>

vars == <<serviceVars, previous, httpVars, clientVars>>

(***************************************************************************)
(* RatingRepository.getTopRatedAggregates: the aggregation pipeline        *)
(***************************************************************************)
RECURSIVE SumOver(_, _)
SumOver(f, S) ==
  IF S = {} THEN 0
  ELSE LET x == CHOOSE y \in S : TRUE IN f[x] + SumOver(f, S \ {x})

\* Variant: $unwind with preserveNullAndEmptyArrays, which keeps a rating
\* whose movie reference matches no movie.
LookupUnwindPreserving(rs, ms) ==
  [i \in DOMAIN rs |->
     [movie |-> IF i \in DOMAIN ms THEN ms[i]
                ELSE [title |-> Null, genre |-> Null, release_year |-> 0],
      votes |-> rs[i]]]

\* $lookup + $unwind: a rating whose movie reference matches no movie joins
\* an empty array, and $unwind drops it. The stream of joined documents is
\* kept per movie reference: the joined movie and the score counts.
LookupUnwind(rs, ms) ==
  [i \in (DOMAIN rs) \cap (DOMAIN ms) |-> [movie |-> ms[i], votes |-> rs[i]]]

\* $match { 'movie.genre': { $regex } }: a movie without genre never matches.
MatchGenre(stream, genreRegex) ==
  [i \in {j \in DOMAIN stream :
            /\ stream[j].movie.genre # Null
            /\ RegexTest(genreRegex, stream[j].movie.genre)} |-> stream[i]]

\* $group by movie._id: no group for a movie without a rating in the stream.
Group(stream) ==
  { [movieId |-> i, title |-> stream[i].movie.title, genre |-> stream[i].movie.genre,
     ratingSum |-> SumOver([s \in Scores |-> s * stream[i].votes[s]], Scores),
     voteCount |-> SumOver(stream[i].votes, Scores)] :
    i \in {j \in DOMAIN stream : SumOver(stream[j].votes, Scores) > 0} }

\* Variant: the threshold stage left out.
MatchMinVotesDropped(groups, minVotes) == groups

\* $match { voteCount: { $gte: minVotes } }
MatchMinVotes(groups, minVotes) == {g \in groups : g.voteCount >= minVotes}

RoundPlaces == 3
Scale == 10 ^ RoundPlaces

\* Variant: the average cut to three decimals instead of rounded.
RoundTruncating(sum, n) == (sum * Scale) \div n

\* $round [avg, 3] of sum / n, in units of 10^-3: to the nearest, a half to
\* the even neighbour.
Round(sum, n) ==
  LET q == (sum * Scale) \div n
      r == (sum * Scale) % n
  IN IF 2 * r < n THEN q
     ELSE IF 2 * r > n THEN q + 1
     ELSE IF q % 2 = 0 THEN q ELSE q + 1

\* $avg compared: a.ratingSum / a.voteCount against b.ratingSum / b.voteCount
\* (for the sums and counts of the model the two doubles compare as the two
\* fractions do).
AvgGreater(a, b) == a.ratingSum * b.voteCount > b.ratingSum * a.voteCount

\* Variant: the title key left out of the sort.
SortBeforeNoTitle(a, b) ==
  \/ AvgGreater(a, b)
  \/ ~AvgGreater(b, a) /\ a.voteCount > b.voteCount

\* Variant: the average rounded before the sort instead of after it.
SortBeforeRounded(a, b) ==
  LET ra == Round(a.ratingSum, a.voteCount)
      rb == Round(b.ratingSum, b.voteCount)
  IN \/ ra > rb
     \/ /\ ra = rb
        /\ \/ a.voteCount > b.voteCount
           \/ a.voteCount = b.voteCount /\ StrLess(a.title, b.title)

\* $sort { avgRating: -1, voteCount: -1, title: 1 }: a sorts before b.
SortBefore(a, b) ==
  \/ AvgGreater(a, b)
  \/ /\ ~AvgGreater(b, a)
     /\ \/ a.voteCount > b.voteCount
        \/ a.voteCount = b.voteCount /\ StrLess(a.title, b.title)

\* The orders a sort may produce: documents with equal keys in any order.
SortOutcomes(groups) ==
  LET n == Cardinality(groups)
  IN { s \in [1..n -> groups] :
         /\ \A i, j \in 1..n : i # j => s[i] # s[j]
         /\ \A i, j \in 1..n : i < j => ~SortBefore(s[j], s[i]) }

\* Variant: the $limit stage left out.
LimitDropped(s, limit) == s

\* $limit
Limit(s, limit) == SubSeq(s, 1, Min(limit, Len(s)))

\* $project
Project(s) ==
  [i \in 1..Len(s) |->
     [movieId |-> s[i].movieId, title |-> s[i].title, genre |-> s[i].genre,
      avgRating |-> Round(s[i].ratingSum, s[i].voteCount),
      voteCount |-> s[i].voteCount]]

\* The results the pipeline may return (one per order of equal sort keys).
GetTopRatedAggregates(rs, ms, genreRegex, minVotes, limit) ==
  LET joined == LookupUnwind(rs, ms)
      matched == IF genreRegex # Null THEN MatchGenre(joined, genreRegex) ELSE joined
      groups == MatchMinVotes(Group(matched), minVotes)
  IN { Project(Limit(s, limit)) : s \in SortOutcomes(groups) }

(***************************************************************************)
(* MovieRepository (find / countDocuments / create / findByIdAndUpdate /   *)
(* findByIdAndDelete on the movies collection)                             *)
(***************************************************************************)
\* The ids of the movies a filter matches.
RepoMatching(ms, filter) ==
  { i \in DOMAIN ms :
      /\ filter.genre # Null => ms[i].genre # Null /\ RegexTest(filter.genre, ms[i].genre)
      /\ ~filter.release_year.isNaN => ms[i].release_year = filter.release_year.n }

RECURSIVE Ascending(_)
Ascending(S) ==
  IF S = {} THEN <<>>
  ELSE LET m == CHOOSE x \in S : \A y \in S : x <= y IN <<m>> \o Ascending(S \ {m})

\* find(filter).skip(skip).limit(limit): the matches in _id order.
RepoGetAllMovies(ms, filter, options) ==
  LET ids == Ascending(RepoMatching(ms, filter))
      page == SubSeq(ids, options.skip + 1, Min(Len(ids), options.skip + options.limit))
  IN [k \in 1..Len(page) |-> [movieId |-> page[k], doc |-> ms[page[k]]]]

RepoCountMovies(ms, filter) == Cardinality(RepoMatching(ms, filter))

RepoCreateMovie(ms, id, doc) == [i \in (DOMAIN ms) \cup {id} |-> IF i = id THEN doc ELSE ms[i]]

RepoUpdateMovie(ms, id, doc) == [i \in DOMAIN ms |-> IF i = id THEN doc ELSE ms[i]]

\* The movie document goes; its ratings stay.
RepoDeleteMovie(ms, id) == [i \in (DOMAIN ms) \ {id} |-> ms[i]]

(***************************************************************************)
(* MovieService                                                            *)
(***************************************************************************)
DefaultMinVotes == 3
MaxMinVotes == 100
DefaultLimit == 10
MaxLimit == 50
ListDefaultLimit == 10
ListMaxLimit == 100

\* Variant: the genre input not trimmed.
EffectiveGenreUntrimmed(query) == Coalesce(query.genre, <<>>)

\* getTopRated: const genre = (query.genre ?? '').trim()
EffectiveGenre(query) == Trim(Coalesce(query.genre, <<>>))

\* Variant: minVotes without the upper clamp.
EffectiveMinVotesUncapped(query) ==
  Max(1, OrElse(ParseInt(Coalesce(query.minVotes, <<"3">>)), DefaultMinVotes))

\* getTopRated: Math.min(100, Math.max(1, parseInt(query.minVotes ?? '3', 10) || 3))
EffectiveMinVotes(query) ==
  Min(MaxMinVotes,
      Max(1, OrElse(ParseInt(Coalesce(query.minVotes, <<"3">>)), DefaultMinVotes)))

\* getTopRated: Math.min(50, Math.max(1, parseInt(query.limit ?? '10', 10) || 10))
EffectiveLimit(query) ==
  Min(MaxLimit,
      Max(1, OrElse(ParseInt(Coalesce(query.limit, <<"1", "0">>)), DefaultLimit)))

\* getTopRated: genre ? new RegExp(genre, 'i') : null
GenreRegex(genre) == IF Truthy(genre) THEN genre ELSE Null

NoMeta == [generatedAt |-> 0, limit |-> 0, minVotes |-> 0, genre |-> Null,
           total |-> 0, page |-> 0, pages |-> 0]

Failure(op, query, error) ==
  [op |-> op, status |-> "error", error |-> error, query |-> query,
   data |-> <<>>, meta |-> NoMeta]

Success(op, query, data, meta) ==
  [op |-> op, status |-> "ok", error |-> "", query |-> query,
   data |-> data, meta |-> meta]

NoQuery == [genre |-> Undefined, minVotes |-> Undefined, limit |-> Undefined,
            year |-> Undefined, page |-> Undefined]

NoResponse == [op |-> "none", status |-> "ok", error |-> "", query |-> NoQuery,
               data |-> <<>>, meta |-> NoMeta]

\* The instants new Date() may read.
Timestamps == {1, 2}

\* rows.map(...) of getTopRated
TopRatedData(rows) ==
  [k \in 1..Len(rows) |->
     [movieId |-> rows[k].movieId, title |-> rows[k].title,
      genre |-> Coalesce(rows[k].genre, Null),
      avgRating |-> rows[k].avgRating, voteCount |-> rows[k].voteCount]]

\* What getTopRated may return as data when nothing throws.
TopRatedResults(query) ==
  { TopRatedData(rows) :
      rows \in GetTopRatedAggregates(ratings, movies, GenreRegex(EffectiveGenre(query)),
                                     EffectiveMinVotes(query), EffectiveLimit(query)) }

GetTopRated(query) ==
  LET genre == EffectiveGenre(query)
      minVotes == EffectiveMinVotes(query)
      limit == EffectiveLimit(query)
  IN /\ response = NoResponse
     /\ \/ \* new RegExp(genre, 'i') throws
           /\ Truthy(genre) /\ ~RegexCompiles(genre)
           /\ response' = Failure("getTopRated", query, "SyntaxError")
        \/ \* the aggregation is rejected by the data store
           /\ Truthy(genre) => RegexCompiles(genre)
           /\ response' = Failure("getTopRated", query, "DataAccess")
        \/ /\ Truthy(genre) => RegexCompiles(genre)
           /\ \E data \in TopRatedResults(query), now \in Timestamps :
                response' = Success("getTopRated", query, data,
                                    [NoMeta EXCEPT !.generatedAt = now,
                                                   !.limit = limit,
                                                   !.minVotes = minVotes,
                                                   !.genre = IF Truthy(genre) THEN genre ELSE Null])
     /\ UNCHANGED <<movies, ratings, usedIds>>

\* Math.ceil(a / b) for a >= 0, b > 0
CeilDiv(a, b) == (a + b - 1) \div b

GetAllMovies(query) ==
  LET year == ParseInt(query.year)
      page == OrElse(ParseInt(query.page), 1)
      limit == Min(OrElse(ParseInt(query.limit), ListDefaultLimit), ListMaxLimit)
      skip == (page - 1) * limit
      filter == [genre |-> IF Truthy(query.genre) THEN query.genre ELSE Null,
                 release_year |-> year]
      total == RepoCountMovies(movies, filter)
  IN /\ response = NoResponse
     /\ \/ /\ Truthy(query.genre) /\ ~RegexCompiles(query.genre)
           /\ response' = Failure("getAllMovies", query, "SyntaxError")
        \/ /\ Truthy(query.genre) => RegexCompiles(query.genre)
           /\ response' = Failure("getAllMovies", query, "DataAccess")
        \/ /\ Truthy(query.genre) => RegexCompiles(query.genre)
           /\ response' = Success("getAllMovies", query,
                                  RepoGetAllMovies(movies, filter,
                                                   [limit |-> limit, skip |-> skip]),
                                  [NoMeta EXCEPT !.total = total, !.page = page,
                                                 !.pages = CeilDiv(total, limit)])
     /\ UNCHANGED <<movies, ratings, usedIds>>

CreateMovie(doc) ==
  \E id \in MovieIds \ usedIds :
    /\ response = NoResponse
    /\ movies' = RepoCreateMovie(movies, id, doc)
    /\ usedIds' = usedIds \cup {id}
    /\ response' = Success("createMovie", NoQuery, <<[movieId |-> id, doc |-> doc]>>, NoMeta)
    /\ UNCHANGED ratings

UpdateMovie(id, doc) ==
  /\ response = NoResponse
  /\ id \in DOMAIN movies
  /\ movies' = RepoUpdateMovie(movies, id, doc)
  /\ response' = Success("updateMovie", NoQuery, <<[movieId |-> id, doc |-> doc]>>, NoMeta)
  /\ UNCHANGED <<ratings, usedIds>>

DeleteMovie(id) ==
  /\ response = NoResponse
  /\ id \in DOMAIN movies
  /\ movies' = RepoDeleteMovie(movies, id)
  /\ response' = Success("deleteMovie", NoQuery, <<>>, NoMeta)
  /\ UNCHANGED <<ratings, usedIds>>

\* getMovie: movie || null
GetMovie(id) ==
  /\ response = NoResponse
  /\ response' = Success("getMovie", NoQuery,
                          IF id \in DOMAIN movies
                            THEN <<[movieId |-> id, doc |-> movies[id]]>> ELSE <<>>,
                          NoMeta)
  /\ UNCHANGED <<movies, ratings, usedIds>>

\* getMovieRatings: the rating documents whose movie reference is movieId
\* (given as the number of documents per score).
GetMovieRatings(movieId) ==
  /\ response = NoResponse
  /\ response' = Success("getMovieRatings", NoQuery,
                          <<[movieId |-> movieId, votes |-> ratings[movieId]]>>, NoMeta)
  /\ UNCHANGED <<movies, ratings, usedIds>>

\* The controller sends what the service returned; the request is over.
SendResponse ==
  /\ response # NoResponse
  /\ response' = NoResponse
  /\ UNCHANGED <<movies, ratings, usedIds>>

(***************************************************************************)
(* What runs, and the state of the router, the error handler and the page  *)
(* before anything happened                                                *)
(***************************************************************************)
\* The repository holds two servers, two versions of the movie router and
\* two versions of the client script.
Servers == {"src/server/server.js", "src/server.js"}
Routers == {"movieRouter.js:1-38", "movieRouter.js:40-76"}
Environments == {"production", "development"}
Clients == {"src/client/js/main.js", "part_002"}

Deployments ==
  [server : Servers, router : Routers, env : Environments, client : Clients,
   canvas : BOOLEAN]

AsDocumented ==
  [server |-> "src/server/server.js", router |-> "movieRouter.js:1-38",
   env |-> "production", client |-> "part_002", canvas |-> TRUE]

NoRequest == [route |-> "none", credential |-> "none", id |-> 0, valid |-> FALSE,
              rest |-> <<>>]

\* An error object: status 0 stands for no status property; ref is "self"
\* when a property of the error refers back to the error (a cycle).
NoError == [status |-> 0, message |-> "", stack |-> "", ref |-> "none"]

\* The body is a function from property names to values.
NoServed == [route |-> "none", status |-> 0, body |-> <<>>]

NoHistory == previous = NoResponse

NoHttp == request = NoRequest /\ err = NoError /\ served = NoServed

NoClient ==
  /\ genreFilter = [value |-> <<>>, disabled |-> FALSE]
  /\ calls = <<>>
  /\ currentChart = 0
  /\ charts = {}
  /\ currentController = 0

\* A step of the service alone.
ServiceStep == UNCHANGED <<previous, httpVars, clientVars>>

(***************************************************************************)
(* The service over every small data set                                   *)
(***************************************************************************)
Action == <<"a", "c", "t", "i", "o", "n">>

TopRatedQueries ==
  { [NoQuery EXCEPT !.genre = g, !.minVotes = m, !.limit = l] :
      g \in { Undefined, Action },
      m \in { Undefined, <<"1">>, <<"4">> },
      l \in { Undefined, <<"1">> } }

ListQueries ==
  { [NoQuery EXCEPT !.genre = g, !.page = p, !.limit = l] :
      g \in { Undefined, Action },
      p \in { Undefined, <<"2">> },
      l \in { <<"1">> } }

AnyDoc == CHOOSE d \in MovieDocs : TRUE

\* Per id: not given to a movie yet, or an existing movie and its ratings.
Slots ==
  {[state |-> "unused", doc |-> AnyDoc, votes |-> NoVotes]}
    \cup {[state |-> "live", doc |-> d, votes |-> v] : d \in MovieDocs, v \in RatingSets}

InitFrom(slots) ==
  \E slot \in [MovieIds -> slots] :
    /\ movies = [i \in {j \in MovieIds : slot[j].state = "live"} |-> slot[i].doc]
    /\ ratings = [i \in MovieIds |-> slot[i].votes]
    /\ usedIds = {i \in MovieIds : slot[i].state # "unused"}
    /\ response = NoResponse

\* The service called directly: nothing else moves.
ServiceOnly == deployed = AsDocumented /\ NoHistory /\ NoHttp /\ NoClient

Init == InitFrom(Slots) /\ ServiceOnly

Next ==
  \/ \E q \in TopRatedQueries : GetTopRated(q) /\ ServiceStep
  \/ \E q \in ListQueries : GetAllMovies(q) /\ ServiceStep
  \/ \E d \in MovieDocs : CreateMovie(d) /\ ServiceStep
  \/ \E i \in MovieIds, d \in MovieDocs : UpdateMovie(i, d) /\ ServiceStep
  \/ \E i \in MovieIds : DeleteMovie(i) /\ ServiceStep
  \/ SendResponse /\ ServiceStep

Spec == Init /\ [][Next]_vars

(***************************************************************************)
(* The genre filter: every genre input, over movies with three ratings or  *)
(* a single one                                                            *)
(***************************************************************************)
GenreInputs ==
  { Undefined, <<>>, <<" ">>, <<" ", " ">>, Action, <<" ", "S", "C", "I", " ">>,
    <<"d", "r", "a", "m", "a">>, <<"i", " ", "a">>, <<"x">>, <<".">>,
    <<"a", ".", "t">>, <<"(">> }

GenreQueries ==
  { [NoQuery EXCEPT !.genre = g, !.minVotes = m] :
      g \in GenreInputs, m \in { Undefined, <<"1">> } }

ListGenreQueries == { [NoQuery EXCEPT !.genre = g] : g \in GenreInputs }

GenreSlots ==
  {[state |-> "unused", doc |-> AnyDoc, votes |-> NoVotes]}
    \cup {[state |-> "live", doc |-> d, votes |-> v] :
            d \in MovieDocs, v \in {Votes(0, 1, 2), Votes(0, 0, 1)}}

InitGenre == InitFrom(GenreSlots) /\ ServiceOnly

NextGenre ==
  \/ \E q \in GenreQueries : GetTopRated(q) /\ ServiceStep
  \/ \E q \in ListGenreQueries : GetAllMovies(q) /\ ServiceStep
  \/ SendResponse /\ ServiceStep

SpecGenre == InitGenre /\ [][NextGenre]_vars

(***************************************************************************)
(* The normalization of minVotes and limit: every numeric input            *)
(***************************************************************************)
NumericInputs ==
  { Undefined, <<>>, <<"a", "b", "c">>, <<"0">>, <<"-", "5">>, <<"1">>, <<"2">>,
    <<"3">>, <<" ", "7">>, <<"+", "9">>, <<"5", "0">>, <<"5", "1">>,
    <<"1", "0", "0">>, <<"1", "0", "1">>, <<"5", "0", "0">>,
    <<"1", "2", "a", "b", "c">>, <<"2", ".", "9">> }

NormQueries ==
  { [NoQuery EXCEPT !.minVotes = m, !.limit = l] :
      m \in NumericInputs, l \in NumericInputs }

NormSlots == {[state |-> "live", doc |-> d, votes |-> Votes(0, 1, 2)] : d \in MovieDocs}

InitNorm == InitFrom(NormSlots) /\ ServiceOnly

NextNorm ==
  \/ \E q \in NormQueries : GetTopRated(q) /\ ServiceStep
  \/ SendResponse /\ ServiceStep

SpecNorm == InitNorm /\ [][NextNorm]_vars

(***************************************************************************)
(* The same top-rated query asked again: the response answered last is     *)
(* kept until the data change                                              *)
(***************************************************************************)
RepeatQueries ==
  { [NoQuery EXCEPT !.minVotes = m, !.limit = l] :
      m \in { Undefined, <<"1">> }, l \in { Undefined, <<"1">> } }

RepeatSlots ==
  {[state |-> "unused", doc |-> AnyDoc, votes |-> NoVotes]}
    \cup {[state |-> "live", doc |-> d, votes |-> v] :
            d \in MovieDocs, v \in {Votes(0, 1, 2), Votes(0, 0, 1)}}

InitRepeat == InitFrom(RepeatSlots) /\ ServiceOnly

NextRepeat ==
  \/ \E q \in RepeatQueries :
       GetTopRated(q) /\ UNCHANGED <<previous, httpVars, clientVars>>
  \/ SendResponse /\ previous' = response /\ UNCHANGED <<httpVars, clientVars>>
  \/ \E i \in MovieIds, d \in MovieDocs :
       UpdateMovie(i, d) /\ previous' = NoResponse /\ UNCHANGED <<httpVars, clientVars>>

SpecRepeat == InitRepeat /\ [][NextRepeat]_vars

(***************************************************************************)
(* The pagination of the listing: every page and limit input               *)
(***************************************************************************)
PageInputs ==
  { Undefined, <<>>, <<"a", "b", "c">>, <<"0">>, <<"1">>, <<"2">>, <<"3">>,
    <<"2", "a", "b", "c">> }

LimitInputs ==
  { Undefined, <<>>, <<"a", "b", "c">>, <<"0">>, <<"1">>, <<"2">>,
    <<"1", "a", "b", "c">>, <<"1", "0", "0">>, <<"1", "0", "1">>, <<"5", "0", "0">> }

PagedQueries ==
  { [NoQuery EXCEPT !.genre = g, !.page = p, !.limit = l] :
      g \in { Undefined, Action }, p \in PageInputs, l \in LimitInputs }

ListSlots ==
  {[state |-> "unused", doc |-> AnyDoc, votes |-> NoVotes]}
    \cup {[state |-> "live", doc |-> d, votes |-> NoVotes] : d \in MovieDocs}

InitList == InitFrom(ListSlots) /\ ServiceOnly

NextList ==
  \/ \E q \in PagedQueries : GetAllMovies(q) /\ ServiceStep
  \/ SendResponse /\ ServiceStep

SpecList == InitList /\ [][NextList]_vars

(***************************************************************************)
(* The movie router: a request runs the handlers registered for its route  *)
(* in order, the router.param('id') callback first                         *)
(***************************************************************************)
ReadRoutes == {"GET /", "GET /:id", "GET /:id/ratings"}
MutationRoutes == {"POST /", "PUT /:id", "DELETE /:id"}

\* The second version of the router registers no authenticateJWT.
Authorization(router) ==
  IF router = "movieRouter.js:1-38" THEN <<"authenticateJWT">> ELSE <<>>

Chain(router, route) ==
  CASE route = "GET /" -> <<"validateQueries", "getAllMovies">>
    [] route = "GET /:id" -> <<"loadMovieDocument", "getMovie">>
    [] route = "POST /" -> Authorization(router) \o <<"validateBody", "createMovie">>
    [] route = "PUT /:id" ->
         <<"loadMovieDocument">> \o Authorization(router) \o <<"validateBody", "updateMovie">>
    [] route = "DELETE /:id" ->
         <<"loadMovieDocument">> \o Authorization(router) \o <<"deleteMovie">>
    [] route = "GET /:id/ratings" -> <<"loadMovieDocument", "getMovieRatings">>

Middlewares == {"loadMovieDocument", "authenticateJWT", "validateQueries", "validateBody"}

Credentials == {"none", "invalid", "valid"}

\* A request arrives: id is the :id of the path (0 without one), valid says
\* whether its query or body passes validation. A POST is taken while an id
\* is left for the new movie.
Receive(route, credential, id, valid) ==
  /\ request = NoRequest
  /\ response = NoResponse
  /\ route = "POST /" => MovieIds \ usedIds # {}
  /\ request' = [route |-> route, credential |-> credential, id |-> id, valid |-> valid,
                 rest |-> Chain(deployed.router, route)]
  /\ UNCHANGED <<serviceVars, previous, deployed, err, served, clientVars>>

\* Whether a middleware calls next().
Passes(middleware) ==
  CASE middleware = "loadMovieDocument" -> request.id \in DOMAIN movies
    [] middleware = "authenticateJWT" -> request.credential = "valid"
    [] OTHER -> request.valid

\* The status a middleware answers with instead.
RejectStatus(middleware) ==
  CASE middleware = "loadMovieDocument" -> 404
    [] middleware = "authenticateJWT" -> 401
    [] OTHER -> 400

RunMiddleware ==
  /\ request.rest # <<>>
  /\ Head(request.rest) \in Middlewares
  /\ IF Passes(Head(request.rest))
       THEN /\ request' = [request EXCEPT !.rest = Tail(@)]
            /\ UNCHANGED served
       ELSE /\ request' = NoRequest
            /\ served' = [route |-> request.route, status |-> RejectStatus(Head(request.rest)),
                          body |-> <<>>]
  /\ UNCHANGED <<serviceVars, previous, deployed, err, clientVars>>

\* The last handler of a chain: the controller method, which calls the
\* service.
Controller(name) ==
  /\ request.rest = <<name>>
  /\ request' = [request EXCEPT !.rest = <<>>]
  /\ UNCHANGED <<previous, deployed, err, served, clientVars>>

RouteGetAllMovies == Controller("getAllMovies") /\ GetAllMovies(NoQuery)

RouteGetMovie == Controller("getMovie") /\ GetMovie(request.id)

RouteCreateMovie == Controller("createMovie") /\ \E d \in MovieDocs : CreateMovie(d)

RouteUpdateMovie == Controller("updateMovie") /\ \E d \in MovieDocs : UpdateMovie(request.id, d)

RouteDeleteMovie == Controller("deleteMovie") /\ DeleteMovie(request.id)

RouteGetMovieRatings == Controller("getMovieRatings") /\ GetMovieRatings(request.id)

\* The controller answers with the result of the service.
Respond ==
  /\ request # NoRequest
  /\ request.rest = <<>>
  /\ SendResponse
  /\ served' = [route |-> request.route,
                status |-> IF response.status = "ok" THEN 200 ELSE 500, body |-> <<>>]
  /\ request' = NoRequest
  /\ UNCHANGED <<previous, deployed, err, clientVars>>

RouteSlots ==
  {[state |-> "unused", doc |-> AnyDoc, votes |-> NoVotes]}
    \cup {[state |-> "live", doc |-> d, votes |-> Votes(0, 0, 1)] :
            d \in {m \in MovieDocs : m.genre = SciFiAction}}

InitRoutes ==
  /\ InitFrom(RouteSlots)
  /\ \E r \in Routers : deployed = [AsDocumented EXCEPT !.router = r]
  /\ NoHistory /\ NoHttp /\ NoClient

NextRoutes ==
  \/ \E route \in ReadRoutes \cup MutationRoutes, c \in Credentials, valid \in BOOLEAN :
       \E id \in IF route \in {"GET /", "POST /"} THEN {0} ELSE MovieIds :
         Receive(route, c, id, valid)
  \/ RunMiddleware
  \/ RouteGetAllMovies
  \/ RouteGetMovie
  \/ RouteCreateMovie
  \/ RouteUpdateMovie
  \/ RouteDeleteMovie
  \/ RouteGetMovieRatings
  \/ Respond

SpecRoutes == InitRoutes /\ [][NextRoutes]_vars

(***************************************************************************)
(* The error handler of the two servers                                    *)
(***************************************************************************)
\* http.STATUS_CODES[500], and the text src/server.js falls back to.
InternalServerError == "Internal Server Error"

\* The errors handed to next(err): with a status (400, 401, 404) or without
\* one, with a message or an empty one, with or without a cycle.
Errors ==
  [status : {0, 400, 401, 404},
   message : {"", "Movie not found", "connect ECONNREFUSED 10.0.0.5:27017"},
   stack : {"Error at MovieRepository.getMovie"},
   ref : {"none", "self"}]

\* if (!err.status) { err.status = 500; err.message = ... }: the error as
\* the production branch leaves it.
Sanitized(server, e) ==
  IF e.status # 0 THEN e
  ELSE [e EXCEPT !.status = 500,
                 !.message = IF server = "src/server/server.js" THEN InternalServerError
                             ELSE IF e.message # "" THEN e.message
                             ELSE InternalServerError]

\* JSON.decycle(err, { includeNonEnumerableProperties: true }): a copy with
\* the own properties of the error, the non-enumerable message and stack
\* included, in which a reference back to the error is the path object
\* { $ref: '$' }.
Decycle(e) ==
  [f \in {"message", "stack"}
          \cup (IF e.status # 0 THEN {"status"} ELSE {})
          \cup (IF e.ref = "self" THEN {"ref"} ELSE {}) |->
     CASE f = "message" -> e.message
       [] f = "stack" -> e.stack
       [] f = "status" -> e.status
       [] f = "ref" -> [r \in {"$ref"} |-> "$"]]

\* A middleware or a body parser calls next(e).
Raise(e) ==
  /\ err = NoError
  /\ err' = e
  /\ UNCHANGED <<serviceVars, previous, deployed, request, served, clientVars>>

\* app.use((err, req, res, next) => ...)
ErrorHandler ==
  /\ err # NoError
  /\ served = NoServed
  /\ IF deployed.env = "production"
       THEN /\ err' = Sanitized(deployed.server, err)
            /\ served' = [route |-> request.route, status |-> err'.status,
                          body |-> [error |-> err'.message]]
       ELSE /\ err' = err
            /\ served' = [route |-> request.route,
                          status |-> IF err.status # 0 THEN err.status ELSE 500,
                          body |-> Decycle(err)]
  /\ UNCHANGED <<serviceVars, previous, deployed, request, clientVars>>

InitErr ==
  /\ InitFrom({[state |-> "unused", doc |-> AnyDoc, votes |-> NoVotes]})
  /\ \E s \in Servers, e \in Environments :
       deployed = [AsDocumented EXCEPT !.server = s, !.env = e]
  /\ NoHistory /\ NoHttp /\ NoClient

NextErr ==
  \/ \E e \in Errors : Raise(e)
  \/ ErrorHandler

SpecErr == InitErr /\ [][NextErr]_vars

(***************************************************************************)
(* The client script, in its two versions: src/client/js/main.js, which    *)
(* collects the ratings page by page, and part_002, which asks the server  *)
(* for the top-rated movies and aborts the request before it. A call of    *)
(* getTopRatedMovies runs up to its next await in one step; what a fetch   *)
(* settles with is the server's choice.                                    *)
(***************************************************************************)
MAX_PAGES == 5

\* The values of the options of the select #genreFilter.
GenreOptions == {<<>>, Drama}

\* String.prototype.toLowerCase
ToLowerCase(s) == [k \in 1..Len(s) |-> Fold(s[k])]

Paged == deployed.client = "src/client/js/main.js"

ClientStep == UNCHANGED <<serviceVars, previous, httpVars>>

\* currentController.abort(): the signal of the call before is aborted.
Abort(cs) ==
  IF currentController # 0 THEN [cs EXCEPT ![currentController].aborted = TRUE] ELSE cs

\* getTopRatedMovies() up to its first await, with the select at `value`.
\* main.js starts the loop and awaits the fetch of page 1. part_002 aborts
\* the request before, takes a new controller, disables the select, reads
\* the genre and awaits the fetch of the top-rated movies.
GetTopRatedMovies(value) ==
  IF Paged
    THEN /\ calls' = Append(calls, [pc |-> "fetch", page |-> 1, genre |-> Undefined,
                                    aborted |-> FALSE])
         /\ genreFilter' = [genreFilter EXCEPT !.value = value]
         /\ UNCHANGED <<currentChart, charts, currentController>>
    ELSE /\ calls' = Append(Abort(calls), [pc |-> "fetch", page |-> 0, genre |-> Trim(value),
                                           aborted |-> FALSE])
         /\ currentController' = Len(calls) + 1
         /\ genreFilter' = [value |-> value, disabled |-> TRUE]
         /\ UNCHANGED <<currentChart, charts>>

\* The call at the end of the script.
Load ==
  /\ calls = <<>>
  /\ GetTopRatedMovies(genreFilter.value)
  /\ ClientStep

\* The change listener: the user picks another option (a disabled select
\* takes no input).
Change(value) ==
  /\ calls # <<>>
  /\ Len(calls) < MaxCalls
  /\ ~genreFilter.disabled
  /\ value # genreFilter.value
  /\ GetTopRatedMovies(value)
  /\ ClientStep

\* Variant: the chart before is not destroyed.
InstalledKeeping(i, genre) == charts \cup {[id |-> i, genre |-> genre]}

\* if (currentChart) currentChart.destroy(); currentChart = new Chart(...):
\* the live charts after call i has installed its chart.
Installed(i, genre) ==
  {c \in charts : c.id # currentChart} \cup {[id |-> i, genre |-> genre]}

\* The end of the try block: without the canvas the call returns, with it
\* the chart of call i replaces the current one.
Display(i, genre) ==
  IF deployed.canvas
    THEN /\ calls' = [calls EXCEPT ![i].pc = "rendered", ![i].genre = genre]
         /\ currentChart' = i
         /\ charts' = Installed(i, genre)
    ELSE /\ calls' = [calls EXCEPT ![i].pc = "returned", ![i].genre = genre]
         /\ UNCHANGED <<currentChart, charts>>

\* main.js leaves the while loop: it reads the genre. With no rating
\* collected both Promise.all wait for nothing and the chart is drawn at
\* once; otherwise the call awaits the fetches of the rated movies.
LeaveLoop(i) ==
  LET selectedGenre == ToLowerCase(genreFilter.value)
  IN IF calls[i].page = 1
       THEN Display(i, selectedGenre)
       ELSE /\ calls' = [calls EXCEPT ![i].pc = "enrich", ![i].genre = selectedGenre]
            /\ UNCHANGED <<currentChart, charts>>

\* main.js: the fetch of a ratings page settles: with status 429 (sleep 2 s
\* and fetch the same page again), with a page (push it, page++, sleep
\* 200 ms), or with a failure (break).
PageFetched(i) ==
  /\ Paged
  /\ i <= Len(calls)
  /\ calls[i].pc = "fetch"
  /\ \/ /\ calls' = [calls EXCEPT ![i].pc = "backoff"]
        /\ UNCHANGED <<currentChart, charts>>
     \/ /\ calls' = [calls EXCEPT ![i].pc = "sleep", ![i].page = @ + 1]
        /\ UNCHANGED <<currentChart, charts>>
     \/ LeaveLoop(i)
  /\ UNCHANGED <<genreFilter, currentController>>
  /\ ClientStep

\* main.js: sleep(2000) is over: continue.
BackoffOver(i) ==
  /\ Paged
  /\ i <= Len(calls)
  /\ calls[i].pc = "backoff"
  /\ calls' = [calls EXCEPT ![i].pc = "fetch"]
  /\ UNCHANGED <<genreFilter, currentChart, charts, currentController>>
  /\ ClientStep

\* main.js: sleep(200) is over: while (page <= MAX_PAGES).
SleepOver(i) ==
  /\ Paged
  /\ i <= Len(calls)
  /\ calls[i].pc = "sleep"
  /\ IF calls[i].page <= MAX_PAGES
       THEN /\ calls' = [calls EXCEPT ![i].pc = "fetch"]
            /\ UNCHANGED <<currentChart, charts>>
       ELSE LeaveLoop(i)
  /\ UNCHANGED <<genreFilter, currentController>>
  /\ ClientStep

\* main.js: the fetches of the rated movies settle: one of them fails and
\* the call rejects, or the call goes on to fetch the top ten.
Enriched(i) ==
  /\ Paged
  /\ i <= Len(calls)
  /\ calls[i].pc = "enrich"
  /\ \E pc \in {"movies", "rejected"} : calls' = [calls EXCEPT ![i].pc = pc]
  /\ UNCHANGED <<genreFilter, currentChart, charts, currentController>>
  /\ ClientStep

\* main.js: the fetches of the top ten settle (a failed one is caught).
MoviesFetched(i) ==
  /\ Paged
  /\ i <= Len(calls)
  /\ calls[i].pc = "movies"
  /\ Display(i, calls[i].genre)
  /\ UNCHANGED <<genreFilter, currentController>>
  /\ ClientStep

\* part_002, catch and finally: the call ends as `pc` and the select is
\* enabled again.
Finally(i, pc) ==
  /\ calls' = [calls EXCEPT ![i].pc = pc]
  /\ UNCHANGED <<currentChart, charts>>

\* part_002: the fetch settles: aborted, failed (or !res.ok), or with a
\* response whose body is awaited.
TopRatedFetched(i) ==
  /\ ~Paged
  /\ i <= Len(calls)
  /\ calls[i].pc = "fetch"
  /\ IF calls[i].aborted
       THEN /\ Finally(i, "aborted")
            /\ genreFilter' = [genreFilter EXCEPT !.disabled = FALSE]
       ELSE \/ /\ Finally(i, "failed")
               /\ genreFilter' = [genreFilter EXCEPT !.disabled = FALSE]
            \/ /\ calls' = [calls EXCEPT ![i].pc = "json"]
               /\ UNCHANGED <<genreFilter, currentChart, charts>>
  /\ UNCHANGED currentController
  /\ ClientStep

\* part_002: res.json() settles: aborted, failed, or with the result, which
\* is drawn.
TopRatedParsed(i) ==
  /\ ~Paged
  /\ i <= Len(calls)
  /\ calls[i].pc = "json"
  /\ IF calls[i].aborted
       THEN Finally(i, "aborted")
       ELSE \/ Finally(i, "failed")
            \/ Display(i, calls[i].genre)
  /\ genreFilter' = [genreFilter EXCEPT !.disabled = FALSE]
  /\ UNCHANGED currentController
  /\ ClientStep

NoData == InitFrom({[state |-> "unused", doc |-> AnyDoc, votes |-> NoVotes]})

InitClient ==
  /\ NoData
  /\ \E c \in Clients, b \in BOOLEAN :
       deployed = [AsDocumented EXCEPT !.client = c, !.canvas = b]
  /\ NoHistory /\ NoHttp /\ NoClient

NextClient ==
  \/ Load
  \/ \E value \in GenreOptions : Change(value)
  \/ \E i \in 1..MaxCalls : PageFetched(i)
  \/ \E i \in 1..MaxCalls : BackoffOver(i)
  \/ \E i \in 1..MaxCalls : SleepOver(i)
  \/ \E i \in 1..MaxCalls : Enriched(i)
  \/ \E i \in 1..MaxCalls : MoviesFetched(i)
  \/ \E i \in 1..MaxCalls : TopRatedFetched(i)
  \/ \E i \in 1..MaxCalls : TopRatedParsed(i)

SpecClient == InitClient /\ [][NextClient]_vars

(***************************************************************************)
(* main.js alone, every timer firing and every fetch settling in the end   *)
(***************************************************************************)
InitPaged ==
  /\ NoData
  /\ deployed = [AsDocumented EXCEPT !.client = "src/client/js/main.js"]
  /\ NoHistory /\ NoHttp /\ NoClient

NextPaged ==
  \/ Load
  \/ \E value \in GenreOptions : Change(value)
  \/ \E i \in 1..MaxCalls : PageFetched(i)
  \/ \E i \in 1..MaxCalls : BackoffOver(i)
  \/ \E i \in 1..MaxCalls : SleepOver(i)
  \/ \E i \in 1..MaxCalls : Enriched(i)
  \/ \E i \in 1..MaxCalls : MoviesFetched(i)

\* The script runs to its end, a pending fetch settles and a timer fires.
FairPaged ==
  /\ WF_vars(Load)
  /\ \A i \in 1..MaxCalls :
       /\ WF_vars(PageFetched(i))
       /\ WF_vars(BackoffOver(i))
       /\ WF_vars(SleepOver(i))
       /\ WF_vars(Enriched(i))
       /\ WF_vars(MoviesFetched(i))

SpecPaged == InitPaged /\ [][NextPaged]_vars /\ FairPaged

(***************************************************************************)
(* Properties                                                              *)
(***************************************************************************)
TopRatedOk == response.op = "getTopRated" /\ response.status = "ok"

\* The number of rating documents whose movie reference is i, and the sum
\* of their scores, read from the ratings collection.
VotesFor(i) ==
  ratings[i][0] + ratings[i][1] + ratings[i][2] + ratings[i][3] + ratings[i][4]
    + ratings[i][5]

ScoreTotal(i) ==
  ratings[i][1] + 2 * ratings[i][2] + 3 * ratings[i][3] + 4 * ratings[i][4]
    + 5 * ratings[i][5]

Abs(x) == IF x < 0 THEN 0 - x ELSE x

Entries == {response.data[k] : k \in 1..Len(response.data)}

\* C1: every entry of a top-rated result has voteCount equal to the number
\* of ratings that reference its movie, and avgRating equal to the mean of
\* exactly those ratings' scores rounded to 3 decimals (the multiple of
\* 0.001 nearest to the mean: at most half a unit away).
C1_MeanAndCount ==
  TopRatedOk =>
    \A e \in Entries :
      /\ e.movieId \in MovieIds
      /\ e.voteCount = VotesFor(e.movieId)
      /\ e.voteCount > 0
      /\ 2 * Abs(e.avgRating * VotesFor(e.movieId) - Scale * ScoreTotal(e.movieId))
           <= VotesFor(e.movieId)

\* A result with the mean 14/3 rounded up to 4.667 and the mean 181/45
\* rounded down to 4.022.
C1_Witness ==
  /\ TopRatedOk
  /\ \E e \in Entries : e.avgRating = 4667 /\ e.voteCount = 3
  /\ \E e \in Entries : e.avgRating = 4022 /\ e.voteCount = 45

\* C2: no entry of a top-rated result has voteCount lower than the effective
\* minVotes echoed in meta.minVotes, which lies in 1..100.
C2_NoEntryBelowMinVotes ==
  TopRatedOk =>
    /\ response.meta.minVotes \in 1..MaxMinVotes
    /\ \A e \in Entries : e.voteCount >= response.meta.minVotes

\* A result for minVotes 4 that has an entry while a movie with three
\* ratings exists and is left out.
C2_Witness ==
  /\ TopRatedOk
  /\ response.meta.minVotes = 4
  /\ response.meta.genre = Null
  /\ Entries # {}
  /\ \E i \in DOMAIN movies :
       VotesFor(i) = 3 /\ \A e \in Entries : e.movieId # i

\* The exact means of the ratings of movies i and j compared.
MeanGreater(i, j) == ScoreTotal(i) * VotesFor(j) > ScoreTotal(j) * VotesFor(i)
MeanEqual(i, j) == ScoreTotal(i) * VotesFor(j) = ScoreTotal(j) * VotesFor(i)

\* C3 as stated: every adjacent pair (A, B) of a top-rated result is ordered
\* on the output values: A.avgRating > B.avgRating, or equal and
\* A.voteCount > B.voteCount, or both equal and A.title <= B.title.
C3_SortedOnOutputValues ==
  TopRatedOk =>
    \A k \in 1..(Len(response.data) - 1) :
      LET A == response.data[k]
          B == response.data[k + 1]
      IN \/ A.avgRating > B.avgRating
         \/ A.avgRating = B.avgRating /\ A.voteCount > B.voteCount
         \/ /\ A.avgRating = B.avgRating
            /\ A.voteCount = B.voteCount
            /\ ~StrLess(B.title, A.title)

\* C3 as amended: for every adjacent pair (A, B), A.avgRating >= B.avgRating
\* on the output values, and on the unrounded means: A's mean is greater,
\* or the means are equal and A.voteCount > B.voteCount, or means and vote
\* counts are equal and A.title <= B.title.
C3_SortedOnExactMeans ==
  TopRatedOk =>
    \A k \in 1..(Len(response.data) - 1) :
      LET A == response.data[k]
          B == response.data[k + 1]
      IN /\ A.avgRating >= B.avgRating
         /\ \/ MeanGreater(A.movieId, B.movieId)
            \/ MeanEqual(A.movieId, B.movieId) /\ A.voteCount > B.voteCount
            \/ /\ MeanEqual(A.movieId, B.movieId)
               /\ A.voteCount = B.voteCount
               /\ ~StrLess(B.title, A.title)

\* An adjacent pair with equal output averages in which the first entry has
\* the fewer votes: its unrounded mean is the greater one.
C3_Witness ==
  /\ TopRatedOk
  /\ Len(response.data) = 2
  /\ response.data[1].avgRating = response.data[2].avgRating
  /\ response.data[1].voteCount < response.data[2].voteCount
  /\ MeanGreater(response.data[1].movieId, response.data[2].movieId)

\* The movies that pass the genre filter and the vote threshold of the
\* answered query.
Qualifying ==
  { i \in DOMAIN movies :
      /\ VotesFor(i) >= response.meta.minVotes
      /\ response.meta.genre # Null =>
           movies[i].genre # Null /\ RegexTest(response.meta.genre, movies[i].genre) }

\* Movie i ranks strictly before movie j: exact mean descending, then vote
\* count descending, then title ascending.
RanksBefore(i, j) ==
  \/ MeanGreater(i, j)
  \/ /\ MeanEqual(i, j)
     /\ \/ VotesFor(i) > VotesFor(j)
        \/ VotesFor(i) = VotesFor(j) /\ StrLess(movies[i].title, movies[j].title)

ReturnedIds == {e.movieId : e \in Entries}

\* C4: the entries of a top-rated result are the first `limit` qualifying
\* movies in the order (unrounded mean descending, vote count descending,
\* title ascending): no entry is ranked after a later entry or after a
\* movie that was cut, whatever the rounded averages are.
C4_RankedOnUnroundedMean ==
  TopRatedOk =>
    /\ Len(response.data) = Min(response.meta.limit, Cardinality(Qualifying))
    /\ ReturnedIds \subseteq Qualifying
    /\ Cardinality(ReturnedIds) = Len(response.data)
    /\ \A k, l \in 1..Len(response.data) :
         k < l => ~RanksBefore(response.data[l].movieId, response.data[k].movieId)
    /\ \A e \in Entries : \A q \in Qualifying \ ReturnedIds : ~RanksBefore(q, e.movieId)

\* A result cut to one entry: the movie with 45 votes is returned and the
\* movie with 46 votes is cut, although both round to the same average.
C4_Witness ==
  /\ TopRatedOk
  /\ response.meta.limit = 1
  /\ Len(response.data) = 1
  /\ response.data[1].voteCount = 45
  /\ \E q \in Qualifying \ ReturnedIds :
       /\ VotesFor(q) = 46
       /\ Round(ScoreTotal(q), VotesFor(q)) = response.data[1].avgRating

\* C5 as stated: a minVotes input of 0, -5 or "abc" yields the effective
\* minVotes 3, and an input of 500 yields 100.
C5_DefaultForZeroNegativeText ==
  TopRatedOk =>
    /\ response.query.minVotes \in {<<"0">>, <<"-", "5">>, <<"a", "b", "c">>}
         => response.meta.minVotes = 3
    /\ response.query.minVotes = <<"5", "0", "0">> => response.meta.minVotes = 100

\* C5 as amended: a minVotes input of 0 or "abc" yields the effective
\* minVotes 3, an input of -5 yields 1 (the lower end of the clamp), and an
\* input of 500 yields 100; the effective value is the threshold applied to
\* the data (every movie of these data sets has three ratings).
C5_DefaultClampedNegative ==
  TopRatedOk =>
    /\ response.query.minVotes \in {<<"0">>, <<"a", "b", "c">>}
         => response.meta.minVotes = 3
    /\ response.query.minVotes = <<"-", "5">> => response.meta.minVotes = 1
    /\ response.query.minVotes = <<"5", "0", "0">> => response.meta.minVotes = 100
    /\ (Entries # {}) = (response.meta.minVotes <= 3)

\* The input -5 answered with the effective minVotes 1.
C5_Witness ==
  /\ TopRatedOk
  /\ response.query.minVotes = <<"-", "5">>
  /\ response.meta.minVotes = 1
  /\ Entries # {}

\* A decimal number as Number() reads it: optional white space around an
\* optional sign, digits, and an optional fraction.
AllDigits(s) == s # <<>> /\ \A k \in 1..Len(s) : IsIn(s[k], DigitChars)

IsNumeric(s) ==
  LET t == Trim(s)
      u == IF t # <<>> /\ Head(t) \in {"-", "+"} THEN Tail(t) ELSE t
  IN \/ AllDigits(u)
     \/ \E d \in 1..Len(u) :
          /\ u[d] = "."
          /\ AllDigits(SubSeq(u, 1, d - 1))
          /\ AllDigits(SubSeq(u, d + 1, Len(u)))

MissingOrNonNumeric(s) == s = Undefined \/ ~IsNumeric(s)

\* C6: for every minVotes and limit input the effective minVotes lies in
\* 1..100 and the effective limit in 1..50, a missing or non-numeric
\* minVotes becomes 3 and a missing or non-numeric limit becomes 10, and
\* the normalization never fails the request.
C6_ClampedWithDefaults ==
  /\ (response.op = "getTopRated" /\ response.status = "error")
       => response.error = "DataAccess"
  /\ TopRatedOk =>
       /\ response.meta.minVotes \in 1..100
       /\ response.meta.limit \in 1..50
       /\ MissingOrNonNumeric(response.query.minVotes) => response.meta.minVotes = 3
       /\ MissingOrNonNumeric(response.query.limit) => response.meta.limit = 10

\* s contains t, letter case ignored.
ContainsFold(s, t) ==
  \E off \in 0..(Len(s) - Len(t)) : \A j \in 1..Len(t) : Fold(s[off + j]) = Fold(t[j])

ListOk == response.op = "getAllMovies" /\ response.status = "ok"

\* C7: with a genre filter, a movie (with enough votes; the limit is not
\* reached) is in the top-rated result if and only if its genre contains
\* the filter text as a case-insensitive substring, and the same rule
\* decides which movies the listing filtered by genre returns.
C7_GenreSubstringFilter ==
  /\ (TopRatedOk /\ response.meta.genre # Null) =>
       \A i \in DOMAIN movies :
         VotesFor(i) >= response.meta.minVotes =>
           (i \in ReturnedIds <=> ContainsFold(movies[i].genre, response.meta.genre))
  /\ (ListOk /\ Truthy(response.query.genre)) =>
       \A i \in DOMAIN movies :
         (i \in ReturnedIds <=> ContainsFold(movies[i].genre, response.query.genre))

IsBlank(g) == g = Undefined \/ \A k \in 1..Len(g) : IsSpace(g[k])

\* C8: a genre input that is missing, empty or only white space is no
\* filter: meta.genre is null, the query has the same possible results as
\* the query without genre, and every movie with enough votes is returned
\* whatever its genre (the limit is not reached).
C8_BlankGenreIsNoFilter ==
  (TopRatedOk /\ IsBlank(response.query.genre)) =>
    LET plain == [response.query EXCEPT !.genre = Undefined]
    IN /\ response.meta.genre = Null
       /\ TopRatedResults(response.query) = TopRatedResults(plain)
       /\ response.data \in TopRatedResults(plain)
       /\ ReturnedIds = {i \in DOMAIN movies : VotesFor(i) >= response.meta.minVotes}

\* A white-space genre input answered with a Drama movie, whose genre
\* holds no white space.
C8_Witness ==
  /\ TopRatedOk
  /\ response.query.genre = <<" ", " ">>
  /\ response.meta.genre = Null
  /\ \E e \in Entries : e.genre = Drama

\* C9: every entry of a top-rated result refers to a movie that exists when
\* the result is read and carries that movie's title and genre; ratings
\* whose movie reference resolves to no movie form no entry and add to no
\* entry's count.
C9_EntriesReferToExistingMovies ==
  TopRatedOk =>
    \A e \in Entries :
      /\ e.movieId \in DOMAIN movies
      /\ e.title = movies[e.movieId].title
      /\ e.genre = movies[e.movieId].genre
      /\ e.voteCount = VotesFor(e.movieId)

\* A result returned while a deleted movie has left behind enough ratings
\* to pass the threshold.
C9_Witness ==
  /\ TopRatedOk
  /\ Entries # {}
  /\ \E i \in usedIds \ DOMAIN movies : VotesFor(i) >= response.meta.minVotes

\* C10: a top-rated result has at most `limit` entries (the effective limit,
\* in 1..50) and at most as many as there are distinct movies that meet the
\* effective minVotes under the genre filter.
C10_LengthBounded ==
  TopRatedOk =>
    /\ response.meta.limit \in 1..MaxLimit
    /\ Len(response.data) <= response.meta.limit
    /\ Len(response.data) <= Cardinality(Qualifying)

\* Two movies qualify and the limit 1 cuts the result to one entry.
C10_Witness ==
  /\ TopRatedOk
  /\ response.meta.limit = 1
  /\ Cardinality(Qualifying) = 2
  /\ Len(response.data) = 1

\* C11: two identical top-rated queries answered one after the other, with
\* no change of Movies and Ratings in between, return the same entries in
\* the same order and the same meta apart from generatedAt, also when
\* several movies share average, vote count and title.
C11_RepeatedQueryIdentical ==
  (/\ TopRatedOk
   /\ previous.op = "getTopRated" /\ previous.status = "ok"
   /\ previous.query = response.query) =>
    /\ response.data = previous.data
    /\ [response.meta EXCEPT !.generatedAt = 0] = [previous.meta EXCEPT !.generatedAt = 0]

\* C12: getTopRated never fails because of its input: whatever the strings
\* given as genre, minVotes and limit are, the request completes with a
\* data/meta result, and it fails only when the data-access call fails.
C12_FailsOnlyOnDataAccess ==
  response.op = "getTopRated" =>
    \/ response.status = "ok"
    \/ response.status = "error" /\ response.error = "DataAccess"

\* A positive whole number written in decimal digits.
IsPositiveInteger(s) == s # Undefined /\ AllDigits(Trim(s)) /\ DigitsValue(Trim(s)) > 0

\* The movies the filter of the answered listing query matches, in the
\* order of the collection.
ListMatches ==
  Ascending({ i \in DOMAIN movies :
                Truthy(response.query.genre) => RegexTest(response.query.genre, movies[i].genre) })

\* C13: a listing reports page 1 for a missing or non-numeric page input
\* and the requested page for a positive number; it uses the limit 10 for a
\* missing or non-numeric limit input, the requested limit for a positive
\* number, and never more than 100; it returns the matches of that page,
\* (page - 1) * limit matches skipped, with total = the number of matches
\* and pages = ceil(total / limit).
C13_PageOfMatches ==
  ListOk =>
    LET q == response.query
        page == response.meta.page
        total == Len(ListMatches)
    IN /\ MissingOrNonNumeric(q.page) => page = 1
       /\ IsPositiveInteger(q.page) => page = DigitsValue(Trim(q.page))
       /\ page >= 1
       /\ response.meta.total = total
       /\ \E limit \in 1..ListMaxLimit :
            /\ MissingOrNonNumeric(q.limit) => limit = ListDefaultLimit
            /\ IsPositiveInteger(q.limit) => limit = Min(DigitsValue(Trim(q.limit)), ListMaxLimit)
            /\ response.meta.pages = CeilDiv(total, limit)
            /\ [k \in 1..Len(response.data) |-> response.data[k].movieId]
                 = SubSeq(ListMatches, (page - 1) * limit + 1, Min(total, page * limit))

MutationControllers == {"createMovie", "updateMovie", "deleteMovie"}

\* C14: a request without a valid credential never reaches createMovie,
\* updateMovie or deleteMovie (the controller is not the handler to run
\* next and its service call has not run), and no read route is refused
\* for want of a credential.
C14_MutationsAuthorized ==
  /\ (request # NoRequest /\ request.credential # "valid") =>
       /\ request.rest # <<>> => Head(request.rest) \notin MutationControllers
       /\ response.op \notin MutationControllers
  /\ served.status = 401 => served.route \in MutationRoutes

\* The step in which the error handler answers.
HandlerAnswers == err # NoError /\ served = NoServed /\ served' # NoServed

\* C15: in production the error handler answers every error with a status
\* and a body of the single field error; an error without status is
\* answered with status 500 and the generic text, not with its own message.
\* Outside production it answers with status err.status or 500 and the
\* decycled error: message, stack and status as they are, a reference back
\* to the error as a path.
C15_ErrorResponses ==
  [][HandlerAnswers =>
       IF deployed.env = "production"
         THEN /\ DOMAIN served'.body = {"error"}
              /\ err.status # 0 => served'.status = err.status
              /\ err.status = 0 =>
                   /\ served'.status = 500
                   /\ served'.body["error"] = InternalServerError
                   /\ err.message # "" => served'.body["error"] # err.message
         ELSE /\ served'.status = IF err.status # 0 THEN err.status ELSE 500
              /\ {"message", "stack"} \subseteq DOMAIN served'.body
              /\ served'.body["message"] = err.message
              /\ served'.body["stack"] = err.stack
              /\ err.status # 0 =>
                   "status" \in DOMAIN served'.body /\ served'.body["status"] = err.status
              /\ err.ref = "self" =>
                   "ref" \in DOMAIN served'.body /\ DOMAIN served'.body["ref"] = {"$ref"}]_vars

\* C16: at any time at most one chart is live, and it is the one
\* currentChart refers to: every chart created before has been destroyed
\* by the call that installed the next one, whatever the order in which
\* the calls of getTopRatedMovies reach their end.
C16_SingleLiveChart ==
  /\ Cardinality(charts) <= 1
  /\ currentChart = 0 <=> charts = {}
  /\ \A c \in charts : c.id = currentChart

\* Two calls have drawn, the first one last: its chart is the live one.
C16_Witness ==
  /\ Len(calls) = 2
  /\ calls[1].pc = "rendered" /\ calls[2].pc = "rendered"
  /\ currentChart = 1
  /\ charts = {[id |-> 1, genre |-> calls[1].genre]}

\* Every call has ended.
AllSettled ==
  /\ calls # <<>>
  /\ \A i \in 1..Len(calls) :
       calls[i].pc \in {"rendered", "returned", "rejected", "failed", "aborted"}

\* C17: an earlier call of getTopRatedMovies never draws after a later
\* one: once a call has drawn, the chart on display is its own or that of
\* a later call, and when every call has ended and the most recent one has
\* drawn, the chart on display is the one of the most recent call, built
\* for the genre selected last.
C17_NoStaleRender ==
  /\ \A j \in 1..Len(calls) : calls[j].pc = "rendered" => currentChart >= j
  /\ (AllSettled /\ calls[Len(calls)].pc = "rendered") =>
       charts = {[id |-> Len(calls), genre |-> calls[Len(calls)].genre]}

\* Call i is in the paged fetch loop of main.js.
InLoop(i) == i <= Len(calls) /\ calls[i].pc \in {"fetch", "backoff", "sleep"}

\* C18: the paged fetch loop always terminates: a call that is in the loop
\* leaves it, having fetched at most MAX_PAGES pages, whatever the server
\* answers, status 429 included.
C18_LoopTerminates ==
  /\ [](\A i \in 1..Len(calls) : calls[i].page <= MAX_PAGES + 1)
  /\ \A i \in 1..MaxCalls : InLoop(i) ~> ~InLoop(i)

====
